---- MODULE Spec2Model ----
(***************************************************************************)
(* Loan decision workflow of Proyecto/backend/loans.routes.js:             *)
(* POST /loans/apply (validation, INSERT at 'pendiente', decision, UPDATE) *)
(* and GET /loans/:id/status, over the loan_requests table.                *)
(*                                                                         *)
(* Numbers.  A JavaScript number of the payload is modelled as an exact    *)
(* rational with a fixed denominator per field: money (amount, income) is  *)
(* counted in quarter-cents (MoneyScale units per cent), term_months in    *)
(* half-months (TermScale units per month).  A column NUMERIC(14,2) holds  *)
(* whole cents, so storing a payload amount rounds it (ToNumeric2).  An    *)
(* optional or nullable value is a sequence of length at most one: <<>> is *)
(* undefined / NULL, <<v>> is the value v.  Arithmetic is exact; on the    *)
(* inputs drawn here the IEEE double evaluation of the code agrees with it.*)
(* The columns created_at and updated_at are left out: nothing reads them. *)
(* calls and writes are history variables: they record what a request has *)
(* invoked and committed and are read by no action.                        *)
(***************************************************************************)
EXTENDS Integers, Sequences, FiniteSets, TLC

VARIABLES
    tableExists,  \* loan_requests has been created
    table,        \* loan_requests: id -> row
    seq,          \* last value of the SERIAL sequence of loan_requests.id
    pc,           \* per POST /apply request: the await it is suspended at
    payload,      \* per request: req.body
    reqRow,       \* per request: rows[0].id of the INSERT, 0 before it
    decision,     \* per request: the locals status, scoring
    resp,         \* per request: the HTTP response sent, <<>> before it
    calls,        \* per request: the engine functions invoked so far
    writes,       \* per request: the table writes it has committed
    lastRead,     \* the response of the latest GET /loans/:id/status
    fnArgs,       \* arguments of a direct call of the pure functions
    fnOut         \* results of that call

vars == <<tableExists, table, seq, pc, payload, reqRow, decision, resp,
          calls, writes, lastRead, fnArgs, fnOut>>

dbVars == <<tableExists, table, seq>>
reqVars == <<pc, payload, reqRow, decision, resp, calls, writes>>
fnVars == <<fnArgs, fnOut>>

-----------------------------------------------------------------------------
(* Bounds of the model *)

NumReq == 2          \* POST /loans/apply requests
MaxMoney == 3        \* payload amount and income range over 0..MaxMoney units
MaxTerm == 3         \* payload term_months ranges over 0..MaxTerm half-months
MaxFnMoney == 6      \* direct calls: income, amount up to MaxFnMoney
MaxFnTerm == 3       \* direct calls: term_months up to MaxFnTerm months

(* Representation of numbers *)

MoneyScale == 4      \* payload money units per cent (the column keeps 2 decimals)
TermScale == 2       \* payload term units per month

(* Policy literals of the code *)

DebtMultiple == 20
DefaultTerm == 24
ApprovalThreshold == 55
ScoreOffset == 60
ScoreMin == 1
ScoreMax == 100
MinNameLen == 3

-----------------------------------------------------------------------------
(* Optional values *)

None == <<>>
Some(v) == <<v>>
IsSome(o) == Len(o) = 1
Val(o) == o[1]

(* Exact rationals <<n, d>> with d > 0 *)

Rat(n, d) == IF d < 0 THEN <<-n, -d>> ELSE <<n, d>>
RatLeq(a, b) == a[1] * b[2] <= b[1] * a[2]
RatMin(a, b) == IF RatLeq(a, b) THEN a ELSE b
RatMax(a, b) == IF RatLeq(a, b) THEN b ELSE a

\* Math.round: the nearest integer, a tie going up
MathRound(a) == (2 * a[1] + a[2]) \div (2 * a[2])

-----------------------------------------------------------------------------
(* Reglas mock: admisibilidad + score *)

\* a destructured field with a default: the default replaces undefined only
OrDefault(o, d) == IF IsSome(o) THEN Val(o) ELSE d

isAdmissibleOffByOne(p) ==
    LET income == OrDefault(p.income, 0)
    IN  IF income = 0 THEN FALSE ELSE p.amount < income * DebtMultiple

isAdmissible(p) ==
    LET income == OrDefault(p.income, 0)
    IN  IF income = 0 THEN FALSE ELSE p.amount <= income * DebtMultiple

\* term_months || 24, in term units
TermOrDefault(o) ==
    IF IsSome(o) /\ Val(o) # 0 THEN Val(o) ELSE DefaultTerm * TermScale

ScoreBaseMinus(p) ==
    LET income == OrDefault(p.income, 0)
        perMonth == Rat(p.amount * TermScale, TermOrDefault(p.term_months))
        ratio == Rat(income * perMonth[2], perMonth[1])
    IN  Rat(ScoreOffset * ratio[2] - ratio[1], ratio[2])

ScoreBaseFrom50(p) ==
    LET income == OrDefault(p.income, 0)
        perMonth == Rat(p.amount * TermScale, TermOrDefault(p.term_months))
        ratio == Rat(income * perMonth[2], perMonth[1])
    IN  Rat(50 * ratio[2] + ratio[1], ratio[2])

\* 60 + income / (amount / term), exact; amount # 0 (ApplySchema: positive)
ScoreBase(p) ==
    LET income == OrDefault(p.income, 0)
        perMonth == Rat(p.amount * TermScale, TermOrDefault(p.term_months))
        ratio == Rat(income * perMonth[2], perMonth[1])
    IN  Rat(ScoreOffset * ratio[2] + ratio[1], ratio[2])

computeScoreNoUpperClamp(p) ==
    MathRound(RatMax(Rat(ScoreMin, 1), ScoreBase(p)))

computeScoreFloors(p) ==
    LET c == RatMax(Rat(ScoreMin, 1), RatMin(Rat(ScoreMax, 1), ScoreBase(p)))
    IN  c[1] \div c[2]

computeScore(p) ==
    MathRound(RatMax(Rat(ScoreMin, 1), RatMin(Rat(ScoreMax, 1), ScoreBase(p))))

-----------------------------------------------------------------------------
(* Validación del payload *)

\* z.number().int().positive() on a value counted in term units
IsPositiveInt(o) == IsSome(o) /\ Val(o) % TermScale = 0 /\ Val(o) > 0

ApplySchema(body) ==
    /\ body.rut >= MinNameLen
    /\ body.full_name >= MinNameLen
    /\ body.email
    /\ body.amount > 0
    /\ IsPositiveInt(body.term_months)
    /\ (IsSome(body.income) => Val(body.income) > 0)

-----------------------------------------------------------------------------
(* The loan_requests table *)

\* a number stored in a NUMERIC(14,2) column: rounded to whole cents,
\* a tie going away from zero
ToNumeric2(v) ==
    IF v >= 0 THEN (2 * v + MoneyScale) \div (2 * MoneyScale)
    ELSE -((2 * (-v) + MoneyScale) \div (2 * MoneyScale))

\* the row the INSERT builds; status is 'pendiente', scoring takes its
\* default NULL
NewRow(body) ==
    [rut |-> body.rut, full_name |-> body.full_name, email |-> body.email,
     amount |-> ToNumeric2(body.amount),
     term_months |-> Val(body.term_months) \div TermScale,
     income |-> IF IsSome(body.income)
                THEN Some(ToNumeric2(Val(body.income))) ELSE None,
     status |-> "pendiente", scoring |-> None]

\* CHECK (amount > 0), CHECK (term_months > 0)
RowChecks(row) == row.amount > 0 /\ row.term_months > 0

Terminal == {"inadmisible", "rechazada", "aprobada"}

-----------------------------------------------------------------------------
(* Decisión: admisibilidad + scoring *)

DecideScoresInadmissible(body) ==
    LET s == computeScore(body)
    IN  IF isAdmissible(body)
        THEN [status |-> IF s >= ApprovalThreshold THEN "aprobada"
                         ELSE "rechazada", scoring |-> Some(s)]
        ELSE [status |-> "inadmisible", scoring |-> Some(s)]

DecideSwapped(body) ==
    IF isAdmissible(body)
    THEN LET s == computeScore(body)
         IN  [status |-> IF s >= ApprovalThreshold THEN "rechazada"
                         ELSE "aprobada",
              scoring |-> Some(s)]
    ELSE [status |-> "inadmisible", scoring |-> None]

Decide(body) ==
    IF isAdmissible(body)
    THEN LET s == computeScore(body)
         IN  [status |-> IF s >= ApprovalThreshold THEN "aprobada"
                         ELSE "rechazada",
              scoring |-> Some(s)]
    ELSE [status |-> "inadmisible", scoring |-> None]

\* the engine functions the decision invokes, in order
DecideCalls(body) ==
    IF isAdmissible(body) THEN <<"isAdmissible", "computeScore">>
    ELSE <<"isAdmissible">>

-----------------------------------------------------------------------------
(* Requests and responses *)

Reqs == 1 .. NumReq

NoBody ==
    [rut |-> 0, full_name |-> 0, email |-> FALSE, amount |-> 0,
     term_months |-> None, income |-> None]
NoDecision == [status |-> "", scoring |-> None]
NoResp == [code |-> 0, error |-> "", id |-> 0, status |-> "", scoring |-> None]
ErrorResp(c, e) ==
    [code |-> c, error |-> e, id |-> 0, status |-> "", scoring |-> None]
NoRead == [code |-> 0, id |-> 0, status |-> "", scoring |-> None]

InFlight == {"ensure", "insert", "update"}

Body(a, t, i) ==
    [rut |-> MinNameLen, full_name |-> MinNameLen, email |-> TRUE,
     amount |-> a, term_months |-> t, income |-> i]

Amounts ==
    (0 .. MaxMoney) \cup {DebtMultiple * MaxMoney, DebtMultiple * MaxMoney + 1}
Incomes == {None} \cup {Some(i) : i \in 0 .. MaxMoney}
Terms == {None} \cup {Some(t) : t \in 0 .. MaxTerm}

\* bodies of a single submission: every numeric field over its range, and
\* each identity field malformed in turn
Bodies ==
    {Body(a, t, i) : a \in Amounts, t \in Terms, i \in Incomes}
    \cup {[Body(MaxMoney, Some(TermScale), Some(MaxMoney)) EXCEPT ![f] = MinNameLen - 1] :
            f \in {"rut", "full_name"}}
    \cup {[Body(MaxMoney, Some(TermScale), Some(MaxMoney)) EXCEPT !.email = FALSE]}

\* bodies of concurrent submissions: an amount that the column rounds to
\* zero and one it rounds up to a cent, with and without an income
ConcBodies ==
    {Body(a, Some(TermScale), i) :
        a \in {MoneyScale \div 4, MoneyScale \div 2},
        i \in {None, Some(MaxMoney)}}

-----------------------------------------------------------------------------
(* Initial state: no table, no request received *)

InitDb == tableExists = FALSE /\ table = <<>> /\ seq = 0

InitReqs ==
    /\ pc = [r \in Reqs |-> "idle"]
    /\ payload = [r \in Reqs |-> NoBody]
    /\ reqRow = [r \in Reqs |-> 0]
    /\ decision = [r \in Reqs |-> NoDecision]
    /\ resp = [r \in Reqs |-> NoResp]
    /\ calls = [r \in Reqs |-> <<>>]
    /\ writes = [r \in Reqs |-> <<>>]
    /\ lastRead = NoRead

NoArgs == [income |-> None, income2 |-> None, amount |-> 1, term_months |-> None]
NoOut == [adm |-> None, score |-> None, score2 |-> None]

Init == InitDb /\ InitReqs /\ fnArgs = NoArgs /\ fnOut = NoOut

-----------------------------------------------------------------------------
(* POST /loans/apply *)

\* the request arrives and the handler suspends at await ensureTables()
Receive(r, body) ==
    /\ pc[r] = "idle"
    /\ \A q \in Reqs : q < r => pc[q] # "idle"
    /\ pc' = [pc EXCEPT ![r] = "ensure"]
    /\ payload' = [payload EXCEPT ![r] = body]
    /\ UNCHANGED <<dbVars, reqRow, decision, resp, calls, writes, lastRead, fnVars>>

\* ensureTables() resolves; safeParse; 400 or the INSERT is sent
EnsureAndParse(r) ==
    /\ pc[r] = "ensure"
    /\ tableExists' = TRUE
    /\ IF ApplySchema(payload[r])
       THEN /\ pc' = [pc EXCEPT ![r] = "insert"]
            /\ resp' = resp
       ELSE /\ pc' = [pc EXCEPT ![r] = "done"]
            /\ resp' = [resp EXCEPT ![r] = ErrorResp(400, "invalid_payload")]
    /\ UNCHANGED <<table, seq, payload, reqRow, decision, calls, writes,
                   lastRead, fnVars>>

\* a query of the handler rejects (connection lost, timeout): catch, 500
QueryFails(r) ==
    /\ pc[r] \in InFlight
    /\ pc' = [pc EXCEPT ![r] = "done"]
    /\ resp' = [resp EXCEPT ![r] = ErrorResp(500, "internal_error")]
    /\ UNCHANGED <<dbVars, payload, reqRow, decision, calls, writes,
                   lastRead, fnVars>>

\* the INSERT commits and returns the row; the decision is computed and
\* the UPDATE is sent.  A row that violates a CHECK is not inserted: the
\* sequence value is consumed and the query rejects
Insert(r) ==
    /\ pc[r] = "insert"
    /\ tableExists
    /\ seq' = seq + 1
    /\ LET row == NewRow(payload[r])
       IN  IF RowChecks(row)
           THEN /\ table' = (seq + 1 :> row) @@ table
                /\ reqRow' = [reqRow EXCEPT ![r] = seq + 1]
                /\ writes' = [writes EXCEPT ![r] = Append(@, "insert")]
                /\ calls' = [calls EXCEPT ![r] = @ \o DecideCalls(payload[r])]
                /\ decision' = [decision EXCEPT ![r] = Decide(payload[r])]
                /\ pc' = [pc EXCEPT ![r] = "update"]
                /\ resp' = resp
           ELSE /\ pc' = [pc EXCEPT ![r] = "done"]
                /\ resp' = [resp EXCEPT ![r] = ErrorResp(500, "internal_error")]
                /\ UNCHANGED <<table, reqRow, writes, calls, decision>>
    /\ UNCHANGED <<tableExists, payload, lastRead, fnVars>>

UpdateRowsNoWhere(t, id, d) ==
    [i \in DOMAIN t |-> [t[i] EXCEPT !.status = d.status, !.scoring = d.scoring]]

UpdateRowsLatest(t, id, d) ==
    [i \in DOMAIN t |->
        IF \A j \in DOMAIN t : j <= i
        THEN [t[i] EXCEPT !.status = d.status, !.scoring = d.scoring]
        ELSE t[i]]

\* UPDATE ... SET status, scoring WHERE id = reqRow.id: the table after it
UpdateRows(t, id, d) ==
    [i \in DOMAIN t |->
        IF i = id THEN [t[i] EXCEPT !.status = d.status, !.scoring = d.scoring]
        ELSE t[i]]

\* the UPDATE commits; 201 with the returned status and scoring
Update(r) ==
    /\ pc[r] = "update"
    /\ table' = UpdateRows(table, reqRow[r], decision[r])
    /\ writes' = [writes EXCEPT ![r] =
                    IF reqRow[r] \in DOMAIN table THEN Append(@, "update") ELSE @]
    /\ pc' = [pc EXCEPT ![r] = "done"]
    /\ resp' = [resp EXCEPT ![r] =
                  IF reqRow[r] \in DOMAIN table
                  THEN [code |-> 201, error |-> "", id |-> reqRow[r],
                        status |-> table'[reqRow[r]].status,
                        scoring |-> table'[reqRow[r]].scoring]
                  ELSE ErrorResp(500, "internal_error")]
    /\ UNCHANGED <<tableExists, seq, payload, reqRow, decision, calls,
                   lastRead, fnVars>>

\* the server process dies: every request in flight is lost, the table stays
Crash ==
    /\ \E r \in Reqs : pc[r] \in InFlight
    /\ pc' = [r \in Reqs |-> IF pc[r] \in InFlight THEN "crashed" ELSE pc[r]]
    /\ UNCHANGED <<dbVars, payload, reqRow, decision, resp, calls, writes,
                   lastRead, fnVars>>

-----------------------------------------------------------------------------
(* GET /loans/:id/status *)

GetStatus(id) ==
    /\ tableExists' = TRUE
    /\ lastRead' =
         IF id \in DOMAIN table
         THEN [code |-> 200, id |-> id, status |-> table[id].status,
               scoring |-> table[id].scoring]
         ELSE [code |-> 404, id |-> 0, status |-> "", scoring |-> None]
    /\ UNCHANGED <<table, seq, reqVars, fnVars>>

GetFails ==
    /\ lastRead' = [code |-> 500, id |-> 0, status |-> "", scoring |-> None]
    /\ UNCHANGED <<dbVars, reqVars, fnVars>>

-----------------------------------------------------------------------------
(* Concurrent submissions *)

Next ==
    \/ \E r \in Reqs, body \in ConcBodies : Receive(r, body)
    \/ \E r \in Reqs : EnsureAndParse(r)
    \/ \E r \in Reqs : QueryFails(r)
    \/ \E r \in Reqs : Insert(r)
    \/ \E r \in Reqs : Update(r)
    \/ Crash
    \/ \E id \in Reqs : GetStatus(id)
    \/ GetFails

Spec == Init /\ [][Next]_vars

(* One submission, over every body *)

NextOne ==
    \/ \E body \in Bodies : Receive(1, body)
    \/ EnsureAndParse(1)
    \/ QueryFails(1)
    \/ Insert(1)
    \/ Update(1)
    \/ Crash
    \/ GetStatus(1)
    \/ GetFails

SpecOne == Init /\ [][NextOne]_vars

-----------------------------------------------------------------------------
(* Direct calls of isAdmissible and computeScore *)

\* the arguments of the self-tests of the client, in pesos and months
SampleIncomes == {1000000, 10000000}
SampleAmounts == {100000, 1500000}
SampleTerms == {12, 24}

FnIncomes ==
    {None} \cup {Some(i) : i \in (-2 .. MaxFnMoney) \cup SampleIncomes}
FnAmounts ==
    (1 .. MaxFnMoney)
    \cup {DebtMultiple * i + d : i \in 1 .. MaxFnMoney, d \in {-1, 0, 1}}
    \cup SampleAmounts
FnTerms ==
    {None} \cup {Some(m * TermScale) : m \in (0 .. MaxFnTerm) \cup SampleTerms}

InitFn ==
    /\ InitDb /\ InitReqs
    /\ fnArgs \in [income : FnIncomes, income2 : FnIncomes,
                   amount : FnAmounts, term_months : FnTerms]
    /\ fnOut = NoOut

CallIsAdmissible ==
    /\ fnOut.adm = None
    /\ fnOut' = [fnOut EXCEPT !.adm = Some(isAdmissible(fnArgs))]
    /\ UNCHANGED <<dbVars, reqVars, lastRead, fnArgs>>

\* computeScore on the same amount and term with each of the two incomes
CallComputeScore ==
    /\ fnOut.score = None
    /\ fnOut' = [fnOut EXCEPT
                   !.score = Some(computeScore(fnArgs)),
                   !.score2 = Some(computeScore(
                                 [fnArgs EXCEPT !.income = fnArgs.income2]))]
    /\ UNCHANGED <<dbVars, reqVars, lastRead, fnArgs>>

NextFn == CallIsAdmissible \/ CallComputeScore

SpecFn == InitFn /\ [][NextFn]_vars

-----------------------------------------------------------------------------
(* C5: isAdmissible, for every positive amount, is false when income is     *)
(* absent, zero or negative, and for income > 0 is true exactly when        *)
(* amount <= income * 20.                                                   *)

C5_IsAdmissibleRule ==
    (IsSome(fnOut.adm) /\ fnArgs.amount > 0) =>
        /\ (fnArgs.income = None \/ Val(fnArgs.income) <= 0)
              => Val(fnOut.adm) = FALSE
        /\ (IsSome(fnArgs.income) /\ Val(fnArgs.income) > 0)
              => (Val(fnOut.adm) <=> fnArgs.amount <= Val(fnArgs.income) * 20)

\* admissible exactly at the boundary amount = income * 20
C5_Witness ==
    /\ fnOut.adm = Some(TRUE)
    /\ IsSome(fnArgs.income)
    /\ fnArgs.amount = Val(fnArgs.income) * 20

(* C6: for valid inputs (income >= 0 or absent, amount > 0, term_months a   *)
(* positive integer or absent) computeScore is an integer in [1,100], and   *)
(* income = 10 000 000, amount = 100 000, term = 12 gives exactly 100.      *)

ValidScoreArgs ==
    /\ (fnArgs.income = None \/ Val(fnArgs.income) >= 0)
    /\ fnArgs.amount > 0
    /\ (fnArgs.term_months = None \/ IsPositiveInt(fnArgs.term_months))

C6_ScoreInRange ==
    (IsSome(fnOut.score) /\ ValidScoreArgs) =>
        /\ Val(fnOut.score) \in 1 .. 100
        /\ (/\ fnArgs.income = Some(10000000)
            /\ fnArgs.amount = 100000
            /\ fnArgs.term_months = Some(12 * TermScale))
              => Val(fnOut.score) = 100

\* the upper clamp acts on the sample of the claim
C6_Witness ==
    /\ fnOut.score = Some(100)
    /\ fnArgs.income = Some(10000000)
    /\ fnArgs.amount = 100000
    /\ fnArgs.term_months = Some(12 * TermScale)

(* C9: with amount and term fixed, for incomes i1 <= i2 the score for i2 is *)
(* at least the score for i1.                                               *)

C9_ScoreMonotone ==
    (IsSome(fnOut.score) /\ IsSome(fnOut.score2)
       /\ OrDefault(fnArgs.income, 0) <= OrDefault(fnArgs.income2, 0))
        => Val(fnOut.score) <= Val(fnOut.score2)

\* a larger income that raises the score strictly
C9_Witness ==
    /\ IsSome(fnOut.score) /\ IsSome(fnOut.score2)
    /\ IsSome(fnArgs.income) /\ IsSome(fnArgs.income2)
    /\ 0 < Val(fnArgs.income) /\ Val(fnArgs.income) < Val(fnArgs.income2)
    /\ Val(fnOut.score) < Val(fnOut.score2)
    /\ Val(fnOut.score2) < 100

-----------------------------------------------------------------------------
(* C1: creation and decision are one logical unit: under any interleaving   *)
(* with GET /loans/:id/status and with a crash between the INSERT and the   *)
(* UPDATE, no reader observes a persisted application still 'pendiente'.    *)

C1_NoReaderSeesPending ==
    ~(lastRead.code = 200 /\ lastRead.status = "pendiente")

(* C2: in every state of loan_requests, for every record, scoring is        *)
(* non-null if and only if status is 'rechazada' or 'aprobada'; a record    *)
(* 'inadmisible' or 'pendiente' has scoring = null.                         *)

C2_ScoringIffDecided ==
    \A id \in DOMAIN table :
        /\ IsSome(table[id].scoring)
              <=> table[id].status \in {"rechazada", "aprobada"}
        /\ table[id].status \in {"inadmisible", "pendiente"}
              => table[id].scoring = None

\* an approved record with its score beside an inadmissible record
C2_Witness ==
    \E i, j \in DOMAIN table :
        /\ table[i].status = "aprobada" /\ IsSome(table[i].scoring)
        /\ table[j].status = "inadmisible"

(* C3: if the UPDATE fails after the INSERT succeeded, the application stays *)
(* stored and 'pendiente' with null scoring, the caller receives 500        *)
(* internal_error, and the decision write is retriable for that same        *)
(* application (some later step can write its terminal status).             *)

UpdateFailed(r) == pc[r] = "done" /\ reqRow[r] # 0 /\ resp[r].code # 201

\* the part of C3 that does not speak of a retry
C3_StaysPending ==
    \A r \in Reqs :
        UpdateFailed(r) =>
            /\ reqRow[r] \in DOMAIN table
            /\ table[reqRow[r]].status = "pendiente"
            /\ table[reqRow[r]].scoring = None
            /\ resp[r] = ErrorResp(500, "internal_error")

C3_UpdateFailureRetriable ==
    /\ C3_StaysPending
    /\ \A r \in Reqs :
          UpdateFailed(r) =>
              ENABLED (Next /\ table'[reqRow[r]].status \in Terminal)

(* C4: for every validated payload, if isAdmissible(payload) is false the   *)
(* decision is 'inadmisible' with scoring null and computeScore is not      *)
(* used; otherwise scoring = computeScore(payload), status is 'aprobada'    *)
(* exactly when scoring >= 55 and 'rechazada' exactly when scoring <= 54;   *)
(* the 201 response carries this same status and scoring.                   *)

IsDecision(body, cs, status, scoring) ==
    IF ~isAdmissible(body)
    THEN /\ status = "inadmisible"
         /\ scoring = None
         /\ \A k \in DOMAIN cs : cs[k] # "computeScore"
    ELSE /\ scoring = Some(computeScore(body))
         /\ status \in {"aprobada", "rechazada"}
         /\ status = "aprobada" <=> Val(scoring) >= 55
         /\ status = "rechazada" <=> Val(scoring) <= 54

C4_StatusAssignment ==
    \A r \in Reqs :
        /\ pc[r] = "update"
              => IsDecision(payload[r], calls[r],
                            decision[r].status, decision[r].scoring)
        /\ resp[r].code = 201
              => /\ ApplySchema(payload[r])
                 /\ IsDecision(payload[r], calls[r],
                               resp[r].status, resp[r].scoring)

\* a 201 that approves a payload at the admissibility boundary
C4_Witness ==
    /\ resp[1].code = 201
    /\ resp[1].status = "aprobada"
    /\ IsSome(payload[1].income)
    /\ payload[1].amount = Val(payload[1].income) * DebtMultiple

\* a 201 that answers 'inadmisible' with a null scoring
C4_WitnessInadmissible ==
    /\ resp[1].code = 201
    /\ resp[1].status = "inadmisible"
    /\ IsSome(payload[1].income)

(* C10: a payload that fails validation is rejected with 400                *)
(* invalid_payload before the engine runs: isAdmissible and computeScore    *)
(* are never invoked for it and no loan_requests record is created or       *)
(* modified.                                                                *)

\* the part of C10 that does not speak of the response
C10_EngineNeverRuns ==
    \A r \in Reqs :
        (pc[r] # "idle" /\ ~ApplySchema(payload[r])) =>
            /\ calls[r] = <<>>
            /\ writes[r] = <<>>
            /\ reqRow[r] = 0
            /\ resp[r].code # 201

C10_InvalidRejectedWith400 ==
    /\ C10_EngineNeverRuns
    /\ \A r \in Reqs :
          (pc[r] = "done" /\ ~ApplySchema(payload[r])) =>
              resp[r] = ErrorResp(400, "invalid_payload")

(* C7: once a record is terminal its status and scoring never change, no    *)
(* record is deleted, every record starts 'pendiente' and takes at most one *)
(* terminal status, and each submission commits its writes in the order     *)
(* register-at-pending then write-terminal-decision: at most these two, and *)
(* exactly these two when it is answered 201.                               *)

WriteOrders == {<<>>, <<"insert">>, <<"insert", "update">>}

C7_RecordStep ==
    /\ \A id \in DOMAIN table :
          /\ id \in DOMAIN table'
          /\ table[id].status \in Terminal => table'[id] = table[id]
          /\ table[id].status = "pendiente" =>
                /\ table'[id].status \in Terminal \cup {"pendiente"}
                /\ [table'[id] EXCEPT !.status = "", !.scoring = None]
                      = [table[id] EXCEPT !.status = "", !.scoring = None]
    /\ \A id \in DOMAIN table' \ DOMAIN table :
          table'[id].status = "pendiente" /\ table'[id].scoring = None

C7_WritesInOrder ==
    \A r \in Reqs :
        /\ writes[r] \in WriteOrders
        /\ resp[r].code = 201 => writes[r] = <<"insert", "update">>

C7_TerminalIsFinal == [][C7_RecordStep /\ C7_WritesInOrder']_vars

\* a submission has written its two writes and its record is terminal while
\* another submission has registered its own
C7_Witness ==
    \E r, q \in Reqs :
        /\ r # q
        /\ writes[r] = <<"insert", "update">>
        /\ table[reqRow[r]].status \in Terminal
        /\ reqRow[q] > reqRow[r]

\* the claim as stated: exactly two writes for every submission that
\* reached the engine
C7_ExactlyTwoWrites ==
    \A r \in Reqs :
        (pc[r] \in {"done", "crashed"} /\ ApplySchema(payload[r]))
            => writes[r] = <<"insert", "update">>

C7_AsStated == [][C7_RecordStep /\ C7_WritesInOrder' /\ C7_ExactlyTwoWrites']_vars

(* C8: concurrent submissions are independent: under any interleaving of    *)
(* the INSERT and UPDATE steps of several requests, each request's UPDATE   *)
(* changes only the record that request inserted, and the final status and  *)
(* scoring of each record equal the decision computed from the payload of   *)
(* the request that inserted it.                                            *)

\* request r commits its UPDATE in this step
UpdateStepOf(r) == pc[r] = "update" /\ Len(writes'[r]) = Len(writes[r]) + 1

C8_UpdateTouchesOwnRow ==
    \A r \in Reqs :
        UpdateStepOf(r) =>
            /\ DOMAIN table' = DOMAIN table
            /\ \A id \in DOMAIN table \ {reqRow[r]} : table'[id] = table[id]

\* no two requests hold the same record
C8_OwnRows(rr) ==
    \A r, q \in Reqs : (r # q /\ rr[r] # 0) => rr[q] # rr[r]

\* the record of every request that wrote its decision carries the decision
\* of that request's payload
C8_FinalIsOwnDecision(wr, rr, pl, t) ==
    \A r \in Reqs :
        wr[r] = <<"insert", "update">> =>
            LET d == Decide(pl[r])
            IN  t[rr[r]].status = d.status /\ t[rr[r]].scoring = d.scoring

C8_Independent ==
    [][/\ C8_UpdateTouchesOwnRow
       /\ C8_OwnRows(reqRow')
       /\ C8_FinalIsOwnDecision(writes', reqRow', payload', table')]_vars

\* request r inserted after q and committed its UPDATE while the UPDATE
\* of q is still to come; the two decisions differ
C8_Witness ==
    \E r, q \in Reqs :
        /\ writes[r] = <<"insert", "update">>
        /\ pc[q] = "update"
        /\ reqRow[q] < reqRow[r]
        /\ table[reqRow[r]].status = "aprobada"
        /\ table[reqRow[q]].status = "pendiente"
        /\ decision[q].status = "inadmisible"

\* the fields of a stored row as the engine functions take them
RowArgs(row) ==
    [income |-> IF IsSome(row.income)
                THEN Some(Val(row.income) * MoneyScale) ELSE None,
     amount |-> row.amount * MoneyScale,
     term_months |-> Some(row.term_months * TermScale)]

\* the claim as stated: the decision computed from the record's own
\* (stored) income, amount and term
C8_FinalIsDecisionOfRecord(wr, rr, t) ==
    \A r \in Reqs :
        wr[r] = <<"insert", "update">> =>
            LET d == Decide(RowArgs(t[rr[r]]))
            IN  t[rr[r]].status = d.status /\ t[rr[r]].scoring = d.scoring

C8_AsStated ==
    [][/\ C8_UpdateTouchesOwnRow
       /\ C8_OwnRows(reqRow')
       /\ C8_FinalIsDecisionOfRecord(writes', reqRow', table')]_vars

-----------------------------------------------------------------------------
(* Client-side helpers of the loan request view *)

MaxCapital == 4      \* direct calls: capital over -MaxCapital..MaxCapital
MaxMeses == 3        \* direct calls: meses over -2..MaxMeses

Abs(n) == IF n < 0 THEN -n ELSE n

RECURSIVE IntPow(_, _)
IntPow(b, e) == IF e = 0 THEN 1 ELSE b * IntPow(b, e - 1)

\* Math.pow(a, e) of a rational a # 0 and an integer e
MathPow(a, e) ==
    IF e >= 0 THEN Rat(IntPow(a[1], e), IntPow(a[2], e))
    ELSE Rat(IntPow(a[2], -e), IntPow(a[1], -e))

\* tasaMensual = 0.019
DefaultMonthlyRate == <<19, 1000>>

\* !x of an optional number: undefined and 0 are falsy
Falsy(o) == ~IsSome(o) \/ Val(o) = 0

estimateMonthlyPaymentFloors(capital, meses, tasaMensual) ==
    LET r == OrDefault(tasaMensual, DefaultMonthlyRate)
    IN  IF Falsy(capital) \/ Falsy(meses) THEN 0
        ELSE IF r[1] = 0 THEN Val(capital) \div Val(meses)
        ELSE LET p == MathPow(Rat(r[2] + r[1], r[2]), -Val(meses))
                 below == Rat(p[2] - p[1], p[2])
                 cuota == Rat(Val(capital) * r[1] * below[2], r[2] * below[1])
             IN  MathRound(cuota)

estimateMonthlyPayment(capital, meses, tasaMensual) ==
    LET r == OrDefault(tasaMensual, DefaultMonthlyRate)
    IN  IF Falsy(capital) \/ Falsy(meses) THEN 0
        ELSE IF r[1] = 0 THEN MathRound(Rat(Val(capital), Val(meses)))
        ELSE LET p == MathPow(Rat(r[2] + r[1], r[2]), -Val(meses))
                 below == Rat(p[2] - p[1], p[2])
                 cuota == Rat(Val(capital) * r[1] * below[2], r[2] * below[1])
             IN  MathRound(cuota)

\* the arguments of the self-tests: (1500000, 24, 0) and (0, 24)
EmpSamples ==
    {[capital |-> Some(1500000), meses |-> Some(24), tasaMensual |-> Some(<<0, 1>>)],
     [capital |-> Some(0), meses |-> Some(24), tasaMensual |-> None]}

EmpCapitals == {None} \cup {Some(c) : c \in -MaxCapital .. MaxCapital}
EmpMeses == {None} \cup {Some(m) : m \in -2 .. MaxMeses}
\* rates 0 and 1: with them, and with the default rate, no exact payment
\* drawn here lies halfway between two integers, where Math.round of the
\* double would depend on its rounding error
EmpRates == {Some(<<0, 1>>), Some(<<1, 1>>)}

\* with the default rate the exact payment stays within the integers of the
\* checker for up to two months
EmpArgs ==
    [capital : EmpCapitals, meses : EmpMeses, tasaMensual : EmpRates]
    \cup [capital : EmpCapitals,
          meses : {None} \cup {Some(m) : m \in -2 .. 2},
          tasaMensual : {None}]
    \cup EmpSamples

NoPayment == [payment |-> None]

InitEmp ==
    /\ InitDb /\ InitReqs
    /\ fnArgs \in EmpArgs
    /\ fnOut = NoPayment

CallEstimateMonthlyPayment ==
    /\ fnOut.payment = None
    /\ fnOut' = [payment |-> Some(estimateMonthlyPayment(
                    fnArgs.capital, fnArgs.meses, fnArgs.tasaMensual))]
    /\ UNCHANGED <<dbVars, reqVars, lastRead, fnArgs>>

NextEmp == CallEstimateMonthlyPayment

SpecEmp == InitEmp /\ [][NextEmp]_vars

(* C11: estimateMonthlyPayment returns 0 whenever principal is zero or      *)
(* absent or termMonths is zero or absent, for any rate; for a non-zero     *)
(* principal and a non-zero termMonths with monthlyRate = 0 it returns the  *)
(* integer nearest to principal / termMonths (1 500 000 over 24 months      *)
(* gives 62 500).                                                           *)

C11_PaymentZeroAndStraightLine ==
    IsSome(fnOut.payment) =>
        LET pay == Val(fnOut.payment)
            absent(o) == o = None \/ o = Some(0)
        IN  /\ (absent(fnArgs.capital) \/ absent(fnArgs.meses)) => pay = 0
            /\ (/\ ~absent(fnArgs.capital) /\ ~absent(fnArgs.meses)
                /\ fnArgs.tasaMensual = Some(<<0, 1>>))
                  => /\ 2 * Abs(Val(fnArgs.capital) - pay * Val(fnArgs.meses))
                          <= Abs(Val(fnArgs.meses))
                     /\ (fnArgs.capital = Some(1500000) /\ fnArgs.meses = Some(24))
                          => pay = 62500

\* the straight-line payment of the self-test
C11_Witness ==
    /\ fnOut.payment = Some(62500)
    /\ fnArgs.capital = Some(1500000)
    /\ fnArgs.meses = Some(24)
    /\ fnArgs.tasaMensual = Some(<<0, 1>>)

\* a zero principal with a non-zero rate pays 0
C11_WitnessZero ==
    /\ fnOut.payment = Some(0)
    /\ fnArgs.capital = Some(0)
    /\ IsSome(fnArgs.meses) /\ Val(fnArgs.meses) > 0
    /\ fnArgs.tasaMensual = None

-----------------------------------------------------------------------------
(* The preview score of the client beside the score of the server *)

\* clamp = (n, min, max) => Math.min(max, Math.max(min, n))
clamp(n, min, max) ==
    LET lower == IF min > n THEN min ELSE n
    IN  IF max < lower THEN max ELSE lower

\* computeScore of the client; <<>> is NaN (ingreso undefined), <<s>> the
\* number s.  term is counted in term units as for the server
computeScoreClient(ingreso, monto, term) ==
    LET safeTerm == TermOrDefault(term)
    IN  IF monto = 0 \/ (IsSome(ingreso) /\ Val(ingreso) < 0) THEN Some(1)
        ELSE IF ~IsSome(ingreso) THEN None
        ELSE LET perMonth == Rat(monto * TermScale, safeTerm)
                 ratio == Rat(Val(ingreso) * perMonth[2], perMonth[1])
                 base == Rat(ScoreOffset * ratio[2] + ratio[1], ratio[2])
             IN  Some(clamp(MathRound(base), ScoreMin, ScoreMax))

NoScores == [server |-> None, client |-> None]

InitPreview ==
    /\ InitDb /\ InitReqs
    /\ fnArgs \in [income : FnIncomes, amount : FnAmounts, term_months : FnTerms]
    /\ fnOut = NoScores

\* the server evaluates the payload the client previewed
CallBothScores ==
    /\ fnOut.server = None
    /\ fnOut' = [server |-> Some(computeScore(fnArgs)),
                 client |-> Some(computeScoreClient(
                               fnArgs.income, fnArgs.amount, fnArgs.term_months))]
    /\ UNCHANGED <<dbVars, reqVars, lastRead, fnArgs>>

NextPreview == CallBothScores

SpecPreview == InitPreview /\ [][NextPreview]_vars

(* C12: for every validated input (income >= 0, amount > 0, term a positive *)
(* integer, or absent or zero and then taken as 24) the computeScore of the *)
(* server (clamp to [1,100], then round) returns the value of round, then   *)
(* clamp to [1,100], which the preview of the client computes: the two      *)
(* never disagree on that domain.                                           *)

PreviewDomain ==
    /\ IsSome(fnArgs.income) /\ Val(fnArgs.income) >= 0
    /\ fnArgs.amount > 0
    /\ \/ Falsy(fnArgs.term_months)
       \/ IsPositiveInt(fnArgs.term_months)

C12_ServerEqualsPreview ==
    (IsSome(fnOut.server) /\ PreviewDomain) =>
        /\ Val(fnOut.client) = Some(Val(fnOut.server))
        /\ Val(fnOut.server) =
              clamp(MathRound(ScoreBase(fnArgs)), 1, 100)

\* both give 100 where the unclamped score is 101 or more
C12_Witness ==
    /\ PreviewDomain
    /\ fnOut.server = Some(100)
    /\ fnOut.client = Some(Some(100))
    /\ RatLeq(Rat(101, 1), ScoreBase(fnArgs))

\* both round a score that ends in one half upwards
C12_WitnessTie ==
    /\ PreviewDomain
    /\ IsSome(fnOut.server)
    /\ fnOut.client = Some(Some(Val(fnOut.server)))
    /\ 2 * ScoreBase(fnArgs)[1] = (2 * Val(fnOut.server) - 1) * ScoreBase(fnArgs)[2]

-----------------------------------------------------------------------------
(* C13: 'rechazada' is unreachable: for every payload that passes           *)
(* validation and isAdmissible the score is at least 60, so the decision is *)
(* 'aprobada'; no submission ever stores or returns 'rechazada'.            *)

C13_NeverRechazada ==
    /\ \A r \in Reqs :
          /\ decision[r].status # "rechazada"
          /\ resp[r].status # "rechazada"
          /\ (ApplySchema(payload[r]) /\ isAdmissible(payload[r])
                /\ decision[r] # NoDecision)
                => /\ decision[r].status = "aprobada"
                   /\ Val(decision[r].scoring) >= 60
    /\ \A id \in DOMAIN table : table[id].status # "rechazada"
    /\ lastRead.status # "rechazada"

\* the lowest score an admissible payload gets is stored, returned and read
\* as 'aprobada'
C13_Witness ==
    /\ resp[1].code = 201
    /\ resp[1].status = "aprobada"
    /\ resp[1].scoring = Some(60)
    /\ table[resp[1].id].status = "aprobada"
    /\ lastRead.code = 200 /\ lastRead.status = "aprobada"

====
